---- MODULE Spec2Model ----
(***************************************************************************)
(* Model of main.py of lapd-crime-analysis: a linear script that loads     *)
(* data/crimes.csv, derives the hour of each incident, counts incidents by *)
(* hour, counts night incidents by area, bins victim ages, and writes      *)
(* three charts and a summary CSV into results/.                           *)
(*                                                                         *)
(* A column of a data frame is a sequence (one entry per row); a Series    *)
(* produced by value_counts is a sequence of <<key, count>> pairs in the   *)
(* order of the Series.  A string that the code slices (TIME OCC) is a     *)
(* sequence of one-character strings.  A victim age is <<>> (an empty CSV  *)
(* cell, NaN) or <<n>> for the integer n.  An uncaught Python exception    *)
(* ends the script: pc = "error" and error names the exception.            *)
(***************************************************************************)
EXTENDS Integers, Sequences, FiniteSets, TLC

VARIABLES file, pc, error, crimes, hour_occ, hour_counts, peak_crime_hour,
          night_crime_by_area, peak_night_crime_location, age_groups,
          victim_ages, percentages, saved, printed, results_summary

vars == <<file, pc, error, crimes, hour_occ, hour_counts, peak_crime_hour,
          night_crime_by_area, peak_night_crime_location, age_groups,
          victim_ages, percentages, saved, printed, results_summary>>

(* Largest number of rows of an input table. *)
MaxRows == 3

----------------------------------------------------------------------------
(* Helpers on sets and sequences *)

MinOf(S) == CHOOSE x \in S : \A y \in S : x <= y

MaxOf(S) == CHOOSE x \in S : \A y \in S : x >= y

SeqsUpTo(S, n) == UNION {[1..k -> S] : k \in 0..n}

RECURSIVE SumCounts(_)
SumCounts(s) == IF s = <<>> THEN 0 ELSE Head(s)[2] + SumCounts(Tail(s))

(* Number of entries of the column xs equal to k. *)
CountOf(xs, k) == Cardinality({i \in DOMAIN xs : xs[i] = k})

(* Position of the first entry of xs equal to k. *)
FirstIndex(xs, k) == MinOf({i \in DOMAIN xs : xs[i] = k})

----------------------------------------------------------------------------
(* Strings: str.zfill(4), str[:2], astype(int)   (main.py line 34) *)

Digits == {"0", "1", "2", "3", "4", "5", "6", "7", "8", "9"}

DigitVal(c) ==
    CASE c = "0" -> 0 [] c = "1" -> 1 [] c = "2" -> 2 [] c = "3" -> 3
      [] c = "4" -> 4 [] c = "5" -> 5 [] c = "6" -> 6 [] c = "7" -> 7
      [] c = "8" -> 8 [] c = "9" -> 9

(* str.zfill(width): pads on the left with "0" up to width; a string that *)
(* is already that long is returned unchanged (it is not truncated).      *)
zfill(s, width) ==
    IF Len(s) >= width THEN s
    ELSE [i \in 1..width |->
            IF i <= width - Len(s) THEN "0" ELSE s[i - (width - Len(s))]]

(* s[:n] *)
StrPrefix(s, n) == SubSeq(s, 1, IF Len(s) < n THEN Len(s) ELSE n)

(* int(s) raises ValueError unless s is a non-empty run of digits (the    *)
(* alphabet of the model has no sign, blank or underscore).               *)
IntRaises(s) == s = <<>> \/ \E i \in DOMAIN s : s[i] \notin Digits

RECURSIVE IntOf(_)
IntOf(s) ==
    IF s = <<>> THEN 0
    ELSE 10 * IntOf(SubSeq(s, 1, Len(s) - 1)) + DigitVal(s[Len(s)])

(* One element of crimes['TIME OCC'].str.zfill(4).str[:2] *)
HourText(t) == StrPrefix(zfill(t, 4), 2)

HourOf(t) == IntOf(HourText(t))

----------------------------------------------------------------------------
(* Series operations of pandas *)

(* The keys of a column. *)
KeysOf(xs) == {xs[i] : i \in DOMAIN xs}

(* Series.value_counts(): one <<key, count>> per distinct value, sorted by *)
(* count descending.  The sort is Series.sort_values with its default      *)
(* kind 'quicksort', which is not stable, so the order of keys of equal    *)
(* count is not fixed: every ordering with non-increasing counts is a      *)
(* possible result.  The operator is the set of possible results.          *)
RECURSIVE value_counts_orders(_, _)
value_counts_orders(xs, K) ==
    IF K = {} THEN {<<>>}
    ELSE LET m == MaxOf({CountOf(xs, k) : k \in K})
         IN  UNION {{<<<<k, CountOf(xs, k)>>>> \o rest :
                        rest \in value_counts_orders(xs, K \ {k})} :
                    k \in {j \in K : CountOf(xs, j) = m}}

value_counts(xs) == value_counts_orders(xs, KeysOf(xs))

(* Series.sort_index(): the same pairs in ascending key order. *)
RECURSIVE sort_index(_)
sort_index(s) ==
    IF s = <<>> THEN <<>>
    ELSE LET m == MinOf({s[i][1] : i \in DOMAIN s})
             p == CHOOSE i \in DOMAIN s : s[i][1] = m
         IN  <<s[p]>> \o
             sort_index([i \in 1..(Len(s) - 1) |-> IF i < p THEN s[i] ELSE s[i + 1]])

(* Series.idxmax() raises ValueError on an empty Series. *)
idxmaxRaises(s) == s = <<>>

(* idxmax taking the last position holding the maximum. *)
idxmax_last(s) ==
    LET m == MaxOf({s[i][2] : i \in DOMAIN s})
    IN  s[MaxOf({i \in DOMAIN s : s[i][2] = m})][1]

(* idxmax taking the first position holding the minimum. *)
idxmin(s) ==
    LET m == MinOf({s[i][2] : i \in DOMAIN s})
    IN  s[MinOf({i \in DOMAIN s : s[i][2] = m})][1]

(* Series.idxmax(): the key at the first position holding the maximum. *)
idxmax(s) ==
    LET m == MaxOf({s[i][2] : i \in DOMAIN s})
    IN  s[MinOf({i \in DOMAIN s : s[i][2] = m})][1]

(* s[key] on a Series with unique keys. *)
Lookup(s, k) == s[CHOOSE i \in DOMAIN s : s[i][1] = k][2]

(* Series.reindex(labels, fill_value=fill) *)
reindex(s, labels, fill) ==
    [i \in DOMAIN labels |->
        <<labels[i],
          IF \E j \in DOMAIN s : s[j][1] = labels[i]
          THEN Lookup(s, labels[i]) ELSE fill>>]

----------------------------------------------------------------------------
(* Constants of the script *)

(* The night window without its part after midnight. *)
night_hours_evening == {22, 23}

(* The night window running through hour 4. *)
night_hours_through_4 == {22, 23, 0, 1, 2, 3, 4}

(* night_hours = [22, 23, 0, 1, 2, 3]; Series.isin uses it as a set. *)
night_hours == {22, 23, 0, 1, 2, 3}

(* age_bins = [0, 17, 25, 34, 44, 54, 64, np.inf]: the finite edges; the  *)
(* last bin has no upper edge.                                            *)
age_bins == <<0, 17, 25, 34, 44, 54, 64>>

age_labels == <<"0-17", "18-25", "26-34", "35-44", "45-54", "55-64", "65+">>

(* The label of a missing bin: pd.cut gives NaN. *)
NaN == "NaN"

(* pd.cut(x, bins=age_bins, labels=age_labels, right=True), one value.    *)
(* include_lowest keeps its default False, so bin i is the interval       *)
(* (age_bins[i], age_bins[i+1]], the first one (0, 17].  A value in no    *)
(* bin, or a missing value, gives NaN.                                    *)
cut(v) ==
    IF v = <<>> THEN NaN
    ELSE LET a == v[1]
             B == {i \in DOMAIN age_bins :
                      /\ age_bins[i] < a
                      /\ (i = Len(age_bins) \/ a <= age_bins[i + 1])}
         IN  IF B = {} THEN NaN ELSE age_labels[CHOOSE i \in B : TRUE]

(* crimes['HOUR OCC'].isin(night_hours), as the row numbers selected. *)
isin_night(hours) == {i \in DOMAIN hours : hours[i] \in night_hours}

(* df[mask][column]: the column's entries of the selected rows, in order. *)
RECURSIVE Filtered(_, _, _)
Filtered(column, mask, i) ==
    IF i > Len(column) THEN <<>>
    ELSE (IF i \in mask THEN <<column[i]>> ELSE <<>>) \o Filtered(column, mask, i + 1)

(* A column without its NaN entries (value_counts drops NaN). *)
DropNaN(column) == SelectSeq(column, LAMBDA x : x # NaN)

(* bars[idx] on the tuple of bars: IndexError when idx is out of range. *)
BarIndexRaises(nbars, idx) == idx >= nbars \/ idx < 0 - nbars

(* (count / total) * 100 if total > 0 else 0, as shown with one decimal:  *)
(* the value in tenths of a percent.                                      *)
percentage(count, total) ==
    IF total > 0 THEN (2000 * count + total) \div (2 * total) ELSE 0

----------------------------------------------------------------------------
(* Inputs: the file data/crimes.csv *)

Columns == {"Date Rptd", "DATE OCC", "TIME OCC", "AREA NAME", "Vict Age"}

Rec(t, a, v) == [time |-> t, area |-> a, age |-> v]

(* Well-formed HHMM strings of hours 0, 1, 5, 13 and 23. *)
HourTimes ==
    { <<"0","0","0","0">>, <<"0","1","1","5">>, <<"0","5","3","0">>,
      <<"1","3","0","0">>, <<"2","3","5","9">> }

(* Strings that are not HHMM: a short one, an hour past 23, a letter in   *)
(* the hour, a letter in the minutes, a long one.                         *)
OddTimes ==
    { <<"1","5">>, <<"2","5","0","0">>, <<"1","x","3","0">>,
      <<"1","2","x","4">>, <<"1","2","3","4","5">> }

HourRecords == {Rec(t, "Central", <<30>>) : t \in HourTimes}

OddRecords == {Rec(t, "Central", <<30>>) : t \in HourTimes \cup OddTimes}

(* Hours 0, 3, 4 and 22: both edges of the night window. *)
NightTimes ==
    { <<"0","0","0","0">>, <<"0","3","5","9">>, <<"0","4","0","0">>,
      <<"2","2","0","0">> }

NightRecords == {Rec(t, a, <<30>>) : t \in NightTimes, a \in {"Central", "Hollywood"}}

AreaNames == {"Central", "Hollywood", "Newton"}

(* Midnight incidents in each area, and one incident at 04:00. *)
AreaRecords ==
    {Rec(<<"0","0","0","0">>, a, <<30>>) : a \in AreaNames}
    \cup {Rec(<<"0","4","0","0">>, "Newton", <<30>>)}

(* Day-time incidents only: four rows of hours 5, 6, 7 and 8, followed by *)
(* rows of hour 4 or 5.                                                   *)
DayPrefix ==
    << Rec(<<"0","5","0","0">>, "Central", <<30>>),
       Rec(<<"0","6","0","0">>, "Central", <<30>>),
       Rec(<<"0","7","0","0">>, "Central", <<30>>),
       Rec(<<"0","8","0","0">>, "Central", <<30>>) >>

DayRecords ==
    { Rec(<<"0","4","0","0">>, "Central", <<30>>),
      Rec(<<"0","5","0","0">>, "Hollywood", <<30>>) }

AgeValues ==
    { <<>>, <<0 - 1>>, <<0>>, <<17>>, <<18>>, <<25>>, <<26>>, <<34>>, <<35>>,
      <<44>>, <<45>>, <<54>>, <<55>>, <<64>>, <<65>> }

AgeRecords == {Rec(<<"0","0","0","0">>, "Central", v) : v \in AgeValues}

EnvRecords ==
    { Rec(<<"0","0","0","0">>, "Central", <<30>>),
      Rec(<<"1","3","0","0">>, "Hollywood", <<>>) }

File(e, c, r) == [exists |-> e, columns |-> c, rows |-> r]

(* The input files of the model: complete files over each family of       *)
(* records, and files that are absent or lack one column.                 *)
IsInputFile(f) ==
    \/ \E r \in SeqsUpTo(HourRecords, MaxRows) : f = File(TRUE, Columns, r)
    \/ \E r \in SeqsUpTo(OddRecords, MaxRows - 1) : f = File(TRUE, Columns, r)
    \/ \E r \in SeqsUpTo(NightRecords, MaxRows) : f = File(TRUE, Columns, r)
    \/ \E r \in SeqsUpTo(AreaRecords, MaxRows + 1) : f = File(TRUE, Columns, r)
    \/ \E r \in SeqsUpTo(DayRecords, MaxRows) : f = File(TRUE, Columns, DayPrefix \o r)
    \/ \E r \in SeqsUpTo(AgeRecords, MaxRows - 1) : f = File(TRUE, Columns, r)
    \/ \E e \in BOOLEAN, x \in Columns, r \in SeqsUpTo(EnvRecords, MaxRows) :
          f = File(e, Columns \ {x}, r)
    \/ \E r \in SeqsUpTo(EnvRecords, MaxRows) : f = File(FALSE, Columns, r)

----------------------------------------------------------------------------
(* The script *)

Init ==
    /\ IsInputFile(file)
    /\ pc = "load"
    /\ error = ""
    /\ crimes = <<>>
    /\ hour_occ = <<>>
    /\ hour_counts = <<>>
    /\ peak_crime_hour = 0 - 1
    /\ night_crime_by_area = <<>>
    /\ peak_night_crime_location = ""
    /\ age_groups = <<>>
    /\ victim_ages = <<>>
    /\ percentages = <<>>
    /\ saved = {}
    /\ printed = {}
    /\ results_summary = <<>>

Raise(e) == pc' = "error" /\ error' = e

(* Lines 23-27: read_csv, then the two lines reporting shape and dates.   *)
(* read_csv raises for a missing file and for a parse_dates column that   *)
(* is absent; a dtype entry for an absent column is ignored.  On a table  *)
(* without rows min() of the date column is NaT (or nan), and .date() on  *)
(* it raises.                                                             *)
Load ==
    /\ pc = "load"
    /\ IF ~file.exists
       THEN Raise("FileNotFoundError") /\ UNCHANGED crimes
       ELSE IF ~({"Date Rptd", "DATE OCC"} \subseteq file.columns)
       THEN Raise("ValueError") /\ UNCHANGED crimes
       ELSE IF file.rows = <<>>
       THEN /\ crimes' = file.rows
            /\ pc' = "error"
            /\ error' \in {"ValueError", "AttributeError"}
       ELSE /\ crimes' = file.rows
            /\ pc' = "derive_hour"
            /\ UNCHANGED error
    /\ UNCHANGED <<file, hour_occ, hour_counts, peak_crime_hour,
                   night_crime_by_area, peak_night_crime_location, age_groups,
                   victim_ages, percentages, saved, printed, results_summary>>

(* Line 34: crimes['HOUR OCC'] = ...str.zfill(4).str[:2].astype(int) *)
DeriveHour ==
    /\ pc = "derive_hour"
    /\ IF "TIME OCC" \notin file.columns
       THEN Raise("KeyError") /\ UNCHANGED hour_occ
       ELSE IF \E i \in DOMAIN crimes : IntRaises(HourText(crimes[i].time))
       THEN Raise("ValueError") /\ UNCHANGED hour_occ
       ELSE /\ hour_occ' = [i \in DOMAIN crimes |-> HourOf(crimes[i].time)]
            /\ pc' = "hourly"
            /\ UNCHANGED error
    /\ UNCHANGED <<file, crimes, hour_counts, peak_crime_hour,
                   night_crime_by_area, peak_night_crime_location, age_groups,
                   victim_ages, percentages, saved, printed, results_summary>>

(* Lines 37-40: hour_counts = value_counts().sort_index(); idxmax() *)
HourlyCounts ==
    /\ pc = "hourly"
    /\ \E vc \in value_counts(hour_occ) :
          LET hc == sort_index(vc)
          IN  /\ hour_counts' = hc
              /\ IF idxmaxRaises(hc)
                 THEN Raise("ValueError") /\ UNCHANGED peak_crime_hour
                 ELSE /\ peak_crime_hour' = idxmax(hc)
                      /\ pc' = "plot_hour"
                      /\ UNCHANGED error
    /\ UNCHANGED <<file, crimes, hour_occ, night_crime_by_area,
                   peak_night_crime_location, age_groups, victim_ages,
                   percentages, saved, printed, results_summary>>

(* Lines 43-66: one bar per entry of hour_counts; bars[peak_crime_hour]   *)
(* indexes the bars by position; then savefig and the peak hour line.     *)
PlotHour ==
    /\ pc = "plot_hour"
    /\ IF BarIndexRaises(Len(hour_counts), peak_crime_hour)
       THEN Raise("IndexError") /\ UNCHANGED <<saved, printed>>
       ELSE /\ saved' = saved \cup {"peak_crime_hour.png"}
            /\ printed' = printed \cup {"peak_crime_hour"}
            /\ pc' = "night"
            /\ UNCHANGED error
    /\ UNCHANGED <<file, crimes, hour_occ, hour_counts, peak_crime_hour,
                   night_crime_by_area, peak_night_crime_location, age_groups,
                   victim_ages, percentages, results_summary>>

(* Lines 73-80: night_crimes, night_crime_by_area, idxmax() *)
NightCounts ==
    /\ pc = "night"
    /\ IF "AREA NAME" \notin file.columns
       THEN /\ Raise("KeyError")
            /\ UNCHANGED <<night_crime_by_area, peak_night_crime_location>>
       ELSE \E vc \in value_counts(Filtered([i \in DOMAIN crimes |-> crimes[i].area],
                                            isin_night(hour_occ), 1)) :
               /\ night_crime_by_area' = vc
               /\ IF idxmaxRaises(vc)
                  THEN Raise("ValueError") /\ UNCHANGED peak_night_crime_location
                  ELSE /\ peak_night_crime_location' = idxmax(vc)
                       /\ pc' = "plot_night"
                       /\ UNCHANGED error
    /\ UNCHANGED <<file, crimes, hour_occ, hour_counts, peak_crime_hour,
                   age_groups, victim_ages, percentages, saved, printed,
                   results_summary>>

(* Lines 83-106: the top-10 chart, savefig, the peak night area line.     *)
(* night_crime_by_area is in descending count order, so idxmax gave its   *)
(* first key and the lookup of line 98 among the first ten keys succeeds. *)
PlotNight ==
    /\ pc = "plot_night"
    /\ saved' = saved \cup {"peak_night_crime_location.png"}
    /\ printed' = printed \cup {"peak_night_crime_location"}
    /\ pc' = "age"
    /\ UNCHANGED <<file, error, crimes, hour_occ, hour_counts, peak_crime_hour,
                   night_crime_by_area, peak_night_crime_location, age_groups,
                   victim_ages, percentages, results_summary>>

(* Lines 113-120: pd.cut, value_counts().reindex(age_labels, fill_value=0) *)
AgeGroups ==
    /\ pc = "age"
    /\ IF "Vict Age" \notin file.columns
       THEN Raise("KeyError") /\ UNCHANGED <<age_groups, victim_ages>>
       ELSE LET ag == [i \in DOMAIN crimes |-> cut(crimes[i].age)]
            IN  /\ age_groups' = ag
                /\ \E vc \in value_counts(DropNaN(ag)) :
                      victim_ages' = reindex(vc, age_labels, 0)
                /\ pc' = "plot_age"
                /\ UNCHANGED error
    /\ UNCHANGED <<file, crimes, hour_occ, hour_counts, peak_crime_hour,
                   night_crime_by_area, peak_night_crime_location, percentages,
                   saved, printed, results_summary>>

(* Lines 123-142: the age chart, savefig, the distribution lines. *)
PlotAge ==
    /\ pc = "plot_age"
    /\ saved' = saved \cup {"victim_age_distribution.png"}
    /\ printed' = printed \cup {"victim_ages"}
    /\ pc' = "summary"
    /\ UNCHANGED <<file, error, crimes, hour_occ, hour_counts, peak_crime_hour,
                   night_crime_by_area, peak_night_crime_location, age_groups,
                   victim_ages, percentages, results_summary>>

(* Lines 148-169: the final report with percentages, the summary CSV. *)
Summary ==
    /\ pc = "summary"
    /\ percentages' = [i \in DOMAIN victim_ages |->
                          <<victim_ages[i][1],
                            percentage(victim_ages[i][2], SumCounts(victim_ages))>>]
    /\ printed' = printed \cup {"final_results"}
    /\ results_summary' = [metric1 |-> peak_crime_hour,
                           metric2 |-> peak_night_crime_location,
                           metric3 |-> Len(crimes)]
    /\ saved' = saved \cup {"final_results_summary.csv"}
    /\ pc' = "done"
    /\ UNCHANGED <<file, error, crimes, hour_occ, hour_counts, peak_crime_hour,
                   night_crime_by_area, peak_night_crime_location, age_groups,
                   victim_ages>>

Next ==
    \/ Load
    \/ DeriveHour
    \/ HourlyCounts
    \/ PlotHour
    \/ NightCounts
    \/ PlotNight
    \/ AgeGroups
    \/ PlotAge
    \/ Summary

Spec == Init /\ [][Next]_vars

----------------------------------------------------------------------------
(* Vocabulary of the properties, stated on the input file *)

(* A time string of the form HHMM with HH <= 23 and MM <= 59. *)
WellFormedTime(t) ==
    /\ Len(t) = 4
    /\ \A i \in 1..4 : t[i] \in Digits
    /\ 10 * DigitVal(t[1]) + DigitVal(t[2]) <= 23
    /\ 10 * DigitVal(t[3]) + DigitVal(t[4]) <= 59

(* The hour a well-formed time string denotes. *)
ClockHour(t) == 10 * DigitVal(t[1]) + DigitVal(t[2])

CompleteFile == file.exists /\ file.columns = Columns

WellFormedInput ==
    CompleteFile /\ \A i \in DOMAIN file.rows : WellFormedTime(file.rows[i].time)

(* The hour of each row of a well-formed input, in input order. *)
ClockHours == [i \in DOMAIN file.rows |-> ClockHour(file.rows[i].time)]

NightWindow == {22, 23, 0, 1, 2, 3}

NightRows == {i \in DOMAIN file.rows : ClockHour(file.rows[i].time) \in NightWindow}

(* The areas of the night-window rows, in input order. *)
NightAreas == Filtered([i \in DOMAIN file.rows |-> file.rows[i].area], NightRows, 1)

(* Rows whose age is missing or negative. *)
InvalidAgeRows ==
    {i \in DOMAIN file.rows :
        file.rows[i].age = <<>> \/ file.rows[i].age[1] < 0}

(* The bracket the bounds [0,17], (17,25], ..., (64,inf) give an age >= 0. *)
Bracket(a) ==
    CASE a <= 17 -> "0-17" [] a > 17 /\ a <= 25 -> "18-25"
      [] a > 25 /\ a <= 34 -> "26-34" [] a > 34 /\ a <= 44 -> "35-44"
      [] a > 44 /\ a <= 54 -> "45-54" [] a > 54 /\ a <= 64 -> "55-64"
      [] a > 64 -> "65+"

ReportLines == {"peak_crime_hour", "peak_night_crime_location", "victim_ages",
                "final_results"}

----------------------------------------------------------------------------
(* C1: for well-formed time strings the hourly mapping has every hour of  *)
(* 0..23 as a key exactly once, in ascending order, an hour without       *)
(* records with count 0, and its counts add up to the number of records.  *)
C1_HourlyCountsComplete ==
    (WellFormedInput /\ hour_counts # <<>>) =>
        /\ Len(hour_counts) = 24
        /\ LET hours == ClockHours
           IN  \A h \in 0..23 : hour_counts[h + 1] = <<h, CountOf(hours, h)>>
        /\ SumCounts(hour_counts) = Len(file.rows)

(* C2: the peak hour has the maximum count among the hours, and among the *)
(* hours sharing that maximum it is the lowest.                           *)
C2_PeakHourLowestMax ==
    (hour_counts # <<>> /\ WellFormedInput) =>
        LET hours == ClockHours
            n == [h \in 0..23 |-> CountOf(hours, h)]
        IN  /\ peak_crime_hour \in 0..23
            /\ n[peak_crime_hour] > 0
            /\ Lookup(hour_counts, peak_crime_hour) = n[peak_crime_hour]
            /\ \A h \in 0..23 :
                  /\ n[h] <= n[peak_crime_hour]
                  /\ n[h] = n[peak_crime_hour] => peak_crime_hour <= h

(* C2 witness: two hours share the maximum and the peak is computed. *)
C2_Witness ==
    /\ hour_counts # <<>>
    /\ WellFormedInput
    /\ LET hours == ClockHours
       IN  \E h \in 0..23 :
              /\ h > peak_crime_hour
              /\ CountOf(hours, h) = CountOf(hours, peak_crime_hour)

(* C3: every age >= 0 is counted in the bracket the bounds [0,17],        *)
(* (17,25], (25,34], (34,44], (44,54], (54,64], (64,inf) give it; age 0   *)
(* and age 17 in '0-17', 18 in '18-25', 64 in '55-64', 65 in '65+'.       *)
C3_ValidAgeBucketed ==
    (CompleteFile /\ age_groups # <<>>) =>
        \A i \in DOMAIN file.rows :
            (file.rows[i].age # <<>> /\ file.rows[i].age[1] >= 0)
                => age_groups[i] = Bracket(file.rows[i].age[1])

(* C4: the age output has the 7 labels in their fixed order; the sum of   *)
(* its counts falls short of the number of records by exactly the number  *)
(* of records whose age is missing or negative; those records are still   *)
(* counted by the hourly and night-area aggregations and in the total.    *)
C4_AgeCountsShortfall ==
    (WellFormedInput /\ victim_ages # <<>>) =>
        /\ [i \in DOMAIN victim_ages |-> victim_ages[i][1]] = age_labels
        /\ SumCounts(victim_ages) <= Len(file.rows)
        /\ Len(file.rows) - SumCounts(victim_ages) = Cardinality(InvalidAgeRows)
        /\ SumCounts(hour_counts) = Len(file.rows)
        /\ SumCounts(night_crime_by_area) = Cardinality(NightRows)
        /\ (pc = "done" => results_summary.metric3 = Len(file.rows))

(* C5: the night-area counts add up to the number of records whose        *)
(* derived hour is in {22,23,0,1,2,3}, each area's count is the number of *)
(* such records of that area, and the counts are in non-increasing order. *)
C5_NightAreaCounts ==
    (night_crime_by_area # <<>> /\ CompleteFile) =>
        LET night == {i \in DOMAIN hour_occ : hour_occ[i] \in NightWindow}
            s == night_crime_by_area
        IN  /\ SumCounts(s) = Cardinality(night)
            /\ \A j \in DOMAIN s :
                  s[j][2] = Cardinality({i \in night : file.rows[i].area = s[j][1]})
            /\ \A j, k \in DOMAIN s : j # k => s[j][1] # s[k][1]
            /\ \A j \in 1..(Len(s) - 1) : s[j][2] >= s[j + 1][2]

(* C5 witness: a table with a record outside the night window and two     *)
(* areas of different night counts has been counted.                      *)
C5_Witness ==
    /\ CompleteFile
    /\ Len(night_crime_by_area) >= 2
    /\ night_crime_by_area[1][2] > night_crime_by_area[2][2]
    /\ \E i \in DOMAIN hour_occ : hour_occ[i] \notin NightWindow

C7_MalformedTimeFails ==
    (CompleteFile /\ pc \notin {"load", "derive_hour"}) =>
        /\ (\E i \in DOMAIN file.rows : ~WellFormedTime(file.rows[i].time))
              => (pc = "error" /\ hour_occ = <<>> /\ hour_counts = <<>>)
        /\ \A i \in DOMAIN hour_occ : hour_occ[i] \in 0..23

(* C8: a table with zero rows, with zero night-window records, or with    *)
(* zero records of valid age never completes, and no peak hour, peak      *)
(* night area or age distribution is reported nor a summary written.      *)
C8_EmptyResultFails ==
    (WellFormedInput /\ (file.rows = <<>> \/ NightRows = {}
                           \/ InvalidAgeRows = DOMAIN file.rows)) =>
        /\ pc # "done"
        /\ printed \cap ReportLines = {}
        /\ "final_results_summary.csv" \notin saved

(* C8 as amended: zero rows end the run in error before anything is       *)
(* reported or saved; zero night-window records end it in error with no   *)
(* peak night area and no age distribution reported and no summary        *)
(* written (only the peak hour and its chart may exist); zero records of  *)
(* valid age do not fail the run: the seven brackets are reported with    *)
(* count 0 and percentage 0 and the summary is written.                   *)
C8_EmptyResultAmended ==
    WellFormedInput =>
        /\ file.rows = <<>> =>
              (pc \in {"load", "error"} /\ printed = {} /\ saved = {})
        /\ NightRows = {} =>
              /\ pc \in {"load", "derive_hour", "hourly", "plot_hour", "night", "error"}
              /\ printed \subseteq {"peak_crime_hour"}
              /\ saved \subseteq {"peak_crime_hour.png"}
              /\ peak_night_crime_location = ""
        /\ (InvalidAgeRows = DOMAIN file.rows /\ victim_ages # <<>>) =>
              /\ pc # "error"
              /\ victim_ages = [i \in DOMAIN age_labels |-> <<age_labels[i], 0>>]
              /\ pc = "done" =>
                    /\ percentages = [i \in DOMAIN age_labels |-> <<age_labels[i], 0>>]
                    /\ {"victim_ages", "final_results"} \subseteq printed
                    /\ "final_results_summary.csv" \in saved

(* C8 witness: a run over rows that all lack a valid age has completed. *)
C8_Witness ==
    /\ WellFormedInput
    /\ file.rows # <<>>
    /\ InvalidAgeRows = DOMAIN file.rows
    /\ pc = "done"

(* C9: when the file is absent or lacks a required column, no aggregation *)
(* result exists and no chart or summary has been written.                *)
C9_LoadFailureBeforeWork ==
    (~file.exists \/ file.columns # Columns) =>
        /\ hour_counts = <<>>
        /\ night_crime_by_area = <<>>
        /\ victim_ages = <<>>
        /\ saved = {}

(* C10: with well-formed time strings and at least one night-window       *)
(* record the run never aborts, and at its end the summary table holds    *)
(* the peak hour, the peak night area and the number of records.          *)
C10_RunCompletes ==
    (WellFormedInput /\ NightRows # {}) =>
        /\ pc # "error"
        /\ pc = "done" =>
              /\ results_summary = [metric1 |-> peak_crime_hour,
                                    metric2 |-> peak_night_crime_location,
                                    metric3 |-> Len(file.rows)]
              /\ "final_results_summary.csv" \in saved

====
